---- MODULE Spec2Model ----
(***************************************************************************)
(* Inventory + Analytics API (SQLite): the product catalog, the inventory  *)
(* movement ledger and the top-movers aggregation of main.py.              *)
(*                                                                         *)
(* Every request handler runs in its own thread on its own sqlite3         *)
(* connection (get_conn).  A connection of Python's sqlite3 module runs a  *)
(* SELECT outside any transaction and opens its implicit transaction at    *)
(* the first INSERT/UPDATE/DELETE, which takes the database write lock     *)
(* until conn.commit().  Nothing a transaction wrote is visible to another *)
(* connection before its commit, and no second writer gets the lock in     *)
(* between, so a handler is two steps other handlers may interleave with:  *)
(* its SELECT (with the checks made on the row read), and its transaction  *)
(* (the DML statements and the commit, taking effect at the commit).  A    *)
(* handler waiting for the write lock is blocked (the busy timeout is not  *)
(* modelled).  The SELECT a handler runs after its commit to build the     *)
(* response is folded into the transaction step.                           *)
(*                                                                         *)
(* init_db never issues PRAGMA foreign_keys=ON, so the FOREIGN KEY clauses *)
(* of the schema are not enforced (SQLite's default); UNIQUE and           *)
(* AUTOINCREMENT are.                                                      *)
(***************************************************************************)
EXTENDS Integers, Sequences, FiniteSets, TLC

\* ---------------------------------------------------------------- bounds
\* Spec: rows the products table ever gets (AUTOINCREMENT never reuses an
\* id), and rows of inventory_movements
MaxProducts == 1
MaxMovements == 1
\* SpecCatalog and SpecAnalytics: rows the products table ever gets
MaxCatalog == 2
\* SpecAnalytics: rows of inventory_movements
MaxLedger == 3
\* the clock runs from 0 to MaxTime (in days)
MaxTime == 2

\* two requests are served at a time, each on its own connection
Procs == {1, 2}
Skus == {"A", "B"}
Names == {"widget"}
Quantities == (0 - 1)..1
Changes == (0 - 1)..1
Reasons == {"sale"}
DaysArgs == 0..MaxTime
LimitArgs == (0 - 1)..MaxCatalog

VARIABLES db, pc, req, resp, now

vars == <<db, pc, req, resp, now>>

\* ---------------------------------------------------------------- helpers
Abs(n) == IF n < 0 THEN 0 - n ELSE n

Min(a, b) == IF a <= b THEN a ELSE b

NoReq == [op |-> "none"]
\* resp is what the last step sent back: the status and body of a response,
\* or nothing
NoResp == [status |-> "none", body |-> <<>>]
Reply(s) == [status |-> s, body |-> <<>>]

EmptyDb == [products |-> <<>>, product_seq |-> 0, movements |-> <<>>]

\* ---------------------------------------------------------------- schema
\* a faulty variant: the sku column without its UNIQUE constraint
UniqueSkuViolatedMutant(prods, sku) == FALSE

\* products.sku TEXT NOT NULL UNIQUE: the INSERT is refused when a row
\* with this sku exists
UniqueSkuViolated(prods, sku) ==
    \E id \in DOMAIN prods : prods[id].sku = sku

\* ---------------------------------------------------------------- SQL statements
\* SELECT id FROM products WHERE sku=?
SelectBySku(d, sku) == {id \in DOMAIN d.products : d.products[id].sku = sku}

\* INSERT INTO products(...): id INTEGER PRIMARY KEY AUTOINCREMENT
InsertProduct(d, payload) ==
    LET id == d.product_seq + 1
    IN [d EXCEPT !.products = (id :> [sku |-> payload.sku,
                                      name |-> payload.name,
                                      quantity |-> payload.quantity]) @@ @,
                 !.product_seq = id]

\* UPDATE products SET quantity=? WHERE id=?   (no row: nothing happens)
UpdateQuantity(d, pid, qty) ==
    IF pid \in DOMAIN d.products
    THEN [d EXCEPT !.products[pid].quantity = qty]
    ELSE d

\* UPDATE products SET <fields of data> WHERE id=?
UpdateFields(d, pid, data) ==
    IF pid \in DOMAIN d.products
    THEN [d EXCEPT !.products[pid] =
            [sku |-> @.sku,
             name |-> IF "name" \in data.fields THEN data.name ELSE @.name,
             quantity |-> IF "quantity" \in data.fields THEN data.quantity
                          ELSE @.quantity]]
    ELSE d

\* a faulty variant: the delete takes the product's movement rows with it
DeleteProductRowMutant(d, pid) ==
    [d EXCEPT !.products = [i \in DOMAIN @ \ {pid} |-> @[i]],
              !.movements = SelectSeq(@, LAMBDA m : m.product_id # pid)]

\* DELETE FROM products WHERE id=?  (the movement rows of the product stay:
\* the foreign key is not enforced)
DeleteProductRow(d, pid) ==
    [d EXCEPT !.products = [i \in DOMAIN @ \ {pid} |-> @[i]]]

\* INSERT INTO inventory_movements(product_id, change, reason, reference,
\* created_at): the row id is its position (AUTOINCREMENT, rows never leave)
InsertMovement(d, payload, t) ==
    [d EXCEPT !.movements = Append(@, [product_id |-> payload.product_id,
                                       change |-> payload.change,
                                       reason |-> payload.reason,
                                       created_at |-> t])]

\* ---------------------------------------------------------------- payloads
\* name stands for the columns besides sku and quantity (description, price,
\* cost, reorder_level, is_active, category_id, supplier_id): all are
\* written from the payload the same way.  quantity and change are plain
\* ints in the schemas: no validator bounds them.
ProductCreate == [sku : Skus, name : Names, quantity : Quantities]

\* model_dump(exclude_unset=True): the fields the request sets, with their
\* values; an unset field carries none
ModelDump(fields, name, quantity) ==
    [fields |-> fields,
     name |-> IF "name" \in fields THEN name ELSE "",
     quantity |-> IF "quantity" \in fields THEN quantity ELSE 0]

ProductUpdate ==
    {ModelDump(f, n, q) : f \in SUBSET {"name", "quantity"}, n \in Names,
                          q \in Quantities}

MovementCreate(ids) == [product_id : ids, change : Changes, reason : Reasons]

\* ---------------------------------------------------------------- initial state
Init ==
    /\ db = EmptyDb
    /\ pc = [p \in Procs |-> "idle"]
    /\ req = [p \in Procs |-> NoReq]
    /\ resp = NoResp
    /\ now = 0

\* a handler returns or raises: the response goes out, the connection closes
Finish(p, r) ==
    /\ pc' = [pc EXCEPT ![p] = "idle"]
    /\ req' = [req EXCEPT ![p] = NoReq]
    /\ resp' = r

\* a handler passed its checks: its transaction is still to run
Goto(p, label, r) ==
    /\ pc' = [pc EXCEPT ![p] = label]
    /\ req' = [req EXCEPT ![p] = r]
    /\ resp' = NoResp

InFlight(label) == Cardinality({q \in Procs : pc[q] = label})

\* ---------------------------------------------------------------- create_product
create_product_select(p, payload) ==
    /\ pc[p] = "idle"
    /\ IF SelectBySku(db, payload.sku) # {}
       THEN Finish(p, Reply("DuplicateKey"))
       ELSE Goto(p, "create_product", [op |-> "create_product", payload |-> payload])
    /\ UNCHANGED <<db, now>>

\* INSERT INTO products; conn.commit().  A sqlite3.IntegrityError of the
\* INSERT is not caught: the connection closes without a commit
create_product_write(p) ==
    /\ pc[p] = "create_product"
    /\ IF UniqueSkuViolated(db.products, req[p].payload.sku)
       THEN /\ Finish(p, Reply("IntegrityError"))
            /\ db' = db
       ELSE /\ db' = InsertProduct(db, req[p].payload)
            /\ Finish(p, Reply("ok"))
    /\ UNCHANGED now

\* ---------------------------------------------------------------- update_product
update_product_select(p, pid, payload) ==
    /\ pc[p] = "idle"
    /\ IF pid \notin DOMAIN db.products
       THEN Finish(p, Reply("NotFound"))
       ELSE IF payload.fields = {}
            THEN Finish(p, Reply("ok"))
            ELSE Goto(p, "update_product",
                      [op |-> "update_product", product_id |-> pid, data |-> payload])
    /\ UNCHANGED <<db, now>>

\* UPDATE products SET ...; conn.commit(); the row is read again, and
\* row_to_dict(None) raises when a concurrent delete_product removed it
update_product_write(p) ==
    /\ pc[p] = "update_product"
    /\ db' = UpdateFields(db, req[p].product_id, req[p].data)
    /\ Finish(p, IF req[p].product_id \in DOMAIN db.products
                 THEN Reply("ok") ELSE Reply("InternalError"))
    /\ UNCHANGED now

\* ---------------------------------------------------------------- delete_product
delete_product_select(p, pid) ==
    /\ pc[p] = "idle"
    /\ IF pid \notin DOMAIN db.products
       THEN Finish(p, Reply("NotFound"))
       ELSE Goto(p, "delete_product", [op |-> "delete_product", product_id |-> pid])
    /\ UNCHANGED <<db, now>>

\* DELETE FROM products WHERE id=?; conn.commit()
delete_product_write(p) ==
    /\ pc[p] = "delete_product"
    /\ db' = DeleteProductRow(db, req[p].product_id)
    /\ Finish(p, Reply("ok"))
    /\ UNCHANGED now

\* ---------------------------------------------------------------- create_movement
\* a faulty variant: a withdrawal of the whole stock is refused too
InsufficientStockMutant(new_qty) == new_qty <= 0

\* if new_qty < 0: raise HTTPException(400, "Insufficient stock")
InsufficientStock(new_qty) == new_qty < 0

create_movement_select(p, payload) ==
    /\ pc[p] = "idle"
    /\ IF payload.product_id \notin DOMAIN db.products
       THEN Finish(p, Reply("NotFound"))
       ELSE LET new_qty == db.products[payload.product_id].quantity + payload.change
            IN IF InsufficientStock(new_qty)
               THEN Finish(p, Reply("InsufficientStock"))
               ELSE Goto(p, "create_movement", [op |-> "create_movement",
                                                payload |-> payload,
                                                new_qty |-> new_qty])
    /\ UNCHANGED <<db, now>>

\* UPDATE products SET quantity=new_qty; now = utcnow(); INSERT INTO
\* inventory_movements; conn.commit()
create_movement_write(p) ==
    /\ pc[p] = "create_movement"
    /\ db' = InsertMovement(UpdateQuantity(db, req[p].payload.product_id,
                                           req[p].new_qty),
                            req[p].payload, now)
    /\ Finish(p, Reply("ok"))
    /\ UNCHANGED now

\* ---------------------------------------------------------------- top_movers
RECURSIVE Moved(_, _, _)
\* SUM(ABS(change)) ... WHERE created_at >= since, for one product_id
Moved(movs, pid, since) ==
    IF movs = <<>> THEN 0
    ELSE (IF movs[1].product_id = pid /\ movs[1].created_at >= since
          THEN Abs(movs[1].change) ELSE 0)
         + Moved(Tail(movs), pid, since)

\* GROUP BY product_id over the rows WHERE created_at >= since
Groups(movs, since) ==
    {movs[i].product_id : i \in {j \in 1..Len(movs) : movs[j].created_at >= since}}

\* ORDER BY moved DESC LIMIT ?: every order of the groups SQLite may give
\* (ties are in no particular order); a negative LIMIT is no limit
TopMoversRows(movs, since, limit) ==
    LET g == Groups(movs, since)
        n == Cardinality(g)
        k == IF limit < 0 THEN n ELSE Min(limit, n)
        sorted == {s \in [1..n -> g] :
                      /\ \A i, j \in 1..n : i # j => s[i] # s[j]
                      /\ \A i, j \in 1..n :
                            i < j => Moved(movs, s[i], since) >= Moved(movs, s[j], since)}
    IN {SubSeq(s, 1, k) : s \in sorted}

RECURSIVE TopMoversResult(_, _, _)
\* for r in rows: the product is looked up, and the row is dropped when the
\* product is gone
TopMoversResult(d, rows, since) ==
    IF rows = <<>> THEN <<>>
    ELSE LET pid == rows[1]
             rest == TopMoversResult(d, Tail(rows), since)
         IN IF pid \in DOMAIN d.products
            THEN <<[product_id |-> pid,
                    sku |-> d.products[pid].sku,
                    name |-> d.products[pid].name,
                    moved |-> Moved(d.movements, pid, since)]>> \o rest
            ELSE rest

\* since = utcnow() - timedelta(days=days)
top_movers(p, days, limit) ==
    /\ pc[p] = "idle"
    /\ \E rows \in TopMoversRows(db.movements, now - days, limit) :
          Finish(p, [status |-> "ok",
                     body |-> TopMoversResult(db, rows, now - days)])
    /\ UNCHANGED <<db, now>>

\* ---------------------------------------------------------------- the clock
Tick ==
    /\ now < MaxTime
    /\ now' = now + 1
    /\ resp' = NoResp
    /\ UNCHANGED <<db, pc, req>>

\* ---------------------------------------------------------------- the service
\* the bounds on the tables: a request that would add a row is taken only
\* while the table has room for it (a request that is refused needs none)
ProductsRoom(limit, payload) ==
    IF SelectBySku(db, payload.sku) # {}
    THEN TRUE
    ELSE db.product_seq + InFlight("create_product") < limit

MovementsRoom(limit, payload) ==
    IF payload.product_id \notin DOMAIN db.products
    THEN TRUE
    ELSE IF InsufficientStock(db.products[payload.product_id].quantity
                              + payload.change)
         THEN TRUE
         ELSE Len(db.movements) + InFlight("create_movement") < limit

Next ==
    \E p \in Procs :
        \/ \E payload \in ProductCreate :
              ProductsRoom(MaxProducts, payload) /\ create_product_select(p, payload)
        \/ create_product_write(p)
        \/ \E pid \in 1..MaxProducts, payload \in ProductUpdate :
              update_product_select(p, pid, payload)
        \/ update_product_write(p)
        \/ \E pid \in 1..MaxProducts : delete_product_select(p, pid)
        \/ delete_product_write(p)
        \/ \E payload \in MovementCreate(1..MaxProducts) :
              MovementsRoom(MaxMovements, payload) /\ create_movement_select(p, payload)
        \/ create_movement_write(p)

Spec == Init /\ [][Next]_vars

\* ---------------------------------------------------------------- the catalog alone
\* Concurrent requests on the products table, with room for two products.
NextCatalog ==
    \E p \in Procs :
        \/ \E payload \in ProductCreate :
              ProductsRoom(MaxCatalog, payload) /\ create_product_select(p, payload)
        \/ create_product_write(p)
        \/ \E pid \in 1..MaxCatalog, payload \in ProductUpdate :
              update_product_select(p, pid, payload)
        \/ update_product_write(p)
        \/ \E pid \in 1..MaxCatalog : delete_product_select(p, pid)
        \/ delete_product_write(p)

SpecCatalog == Init /\ [][NextCatalog]_vars

\* ---------------------------------------------------------------- concurrent withdrawals
\* One product holds StartStock units; each waiting request withdraws one
\* unit from it.  Either StartStock or StartStock + 1 requests wait.
StartStock == Cardinality(Procs) - 1

Queued == [op |-> "queued"]

Withdrawals ==
    [product_id : {1}, change : {0 - 1}, reason : {"sale", "adjustment"}]

InitConc ==
    /\ db = [products |-> (1 :> [sku |-> "A", name |-> "widget",
                                 quantity |-> StartStock]),
             product_seq |-> 1,
             movements |-> <<>>]
    /\ pc = [p \in Procs |-> "idle"]
    /\ \E last \in Procs :
          \E waiting \in {Procs, Procs \ {last}} :
             req = [p \in Procs |-> IF p \in waiting THEN Queued ELSE NoReq]
    /\ resp = NoResp
    /\ now = 0

NextConc ==
    \/ Tick
    \/ \E p \in Procs :
          \/ \E payload \in Withdrawals :
                req[p] = Queued /\ create_movement_select(p, payload)
          \/ create_movement_write(p)

SpecConc == InitConc /\ [][NextConc]_vars

\* ---------------------------------------------------------------- analytics
\* One client at a time: products come and go, stock moves, time passes,
\* and top_movers is asked for.
StockedProducts == {x \in ProductCreate : x.quantity = 1}

NextAnalytics ==
    \/ Tick
    \/ \E p \in {1} :
          \/ \E payload \in StockedProducts :
                ProductsRoom(MaxCatalog, payload) /\ create_product_select(p, payload)
          \/ create_product_write(p)
          \/ \E pid \in 1..MaxCatalog : delete_product_select(p, pid)
          \/ delete_product_write(p)
          \/ \E payload \in MovementCreate(1..MaxCatalog) :
                MovementsRoom(MaxLedger, payload) /\ create_movement_select(p, payload)
          \/ create_movement_write(p)
          \/ \E days \in DaysArgs, limit \in LimitArgs : top_movers(p, days, limit)

SpecAnalytics == Init /\ [][NextAnalytics]_vars

\* ---------------------------------------------------------------- properties
Quantity(pid) == db.products[pid].quantity

RECURSIVE SumChange(_, _)
\* the sum of change over the movement rows of one product
SumChange(movs, pid) ==
    IF movs = <<>> THEN 0
    ELSE (IF movs[1].product_id = pid THEN movs[1].change ELSE 0)
         + SumChange(Tail(movs), pid)

AllIdle == \A p \in Procs : pc[p] = "idle" /\ req[p] = NoReq

\* C1: every product's stored quantity equals the sum of change over the
\* movement rows of that product.
C1_QuantityIsSumOfMovements ==
    \A pid \in DOMAIN db.products : Quantity(pid) = SumChange(db.movements, pid)

\* C2: when StartStock or StartStock + 1 concurrent requests each withdraw
\* one unit from a product holding StartStock units, then once all of them
\* are answered the quantity is 0 and exactly StartStock movement rows exist
\* (so every request beyond the stock was refused).
C2_ConcurrentWithdrawals ==
    AllIdle => /\ Quantity(1) = 0
               /\ Len(db.movements) = StartStock

\* C3: a create_movement request for a missing product is answered NotFound,
\* one whose change would take the quantity read below zero is answered
\* InsufficientStock, and either leaves the products and the movements as
\* they were; every other request goes on to its transaction.
C3_RefusedMovementChangesNothing ==
    [][\A p \in Procs, payload \in MovementCreate(1..MaxProducts) :
          create_movement_select(p, payload) =>
             IF payload.product_id \notin DOMAIN db.products
             THEN resp'.status = "NotFound" /\ db' = db /\ pc'[p] = "idle"
             ELSE IF Quantity(payload.product_id) + payload.change < 0
                  THEN /\ resp'.status = "InsufficientStock"
                       /\ db' = db
                       /\ pc'[p] = "idle"
                  ELSE /\ pc'[p] = "create_movement"
                       /\ req'[p].new_qty
                             = Quantity(payload.product_id) + payload.change
                       /\ db' = db]_vars

\* C3 witness: a withdrawal of one unit was recorded and left quantity 0, and
\* the withdrawal asked for next was refused.
C3_Witness ==
    /\ resp.status = "InsufficientStock"
    /\ 1 \in DOMAIN db.products
    /\ Quantity(1) = 0
    /\ Len(db.movements) = 1
    /\ db.movements[1].product_id = 1
    /\ db.movements[1].change = 0 - 1

\* C4: every product's quantity is at least 0.
C4_QuantityNonNegative ==
    \A pid \in DOMAIN db.products : Quantity(pid) >= 0

\* C5: the quantity of an existing product changes only in the transaction
\* of a create_movement request.
C5_OnlyMovementsChangeQuantity ==
    [][\A pid \in DOMAIN db.products :
          (pid \in DOMAIN db'.products
              /\ db'.products[pid].quantity # db.products[pid].quantity)
          => \E p \in Procs : create_movement_write(p)]_vars

\* C6: no movement row has change = 0.
C6_NoZeroMovement ==
    \A i \in 1..Len(db.movements) : db.movements[i].change # 0

MovedProducts(since) ==
    {pid \in DOMAIN db.products :
        \E i \in 1..Len(db.movements) :
           /\ db.movements[i].product_id = pid
           /\ db.movements[i].created_at >= since}

IsTopMovers(body, since, limit) ==
    LET n == Len(body)
        listed == {body[i].product_id : i \in 1..n}
    IN /\ n = Min(limit, Cardinality(MovedProducts(since)))
       /\ \A i \in 1..n :
             /\ body[i].product_id \in MovedProducts(since)
             /\ body[i].sku = db.products[body[i].product_id].sku
             /\ body[i].name = db.products[body[i].product_id].name
             /\ body[i].moved = Moved(db.movements, body[i].product_id, since)
       /\ \A i, j \in 1..n : i < j => /\ body[i].product_id # body[j].product_id
                                      /\ body[i].moved >= body[j].moved
       /\ \A pid \in MovedProducts(since) \ listed :
             \A i \in 1..n : body[i].moved >= Moved(db.movements, pid, since)

\* C9: top_movers(days, limit), limit >= 0, returns the limit products (all
\* of them when fewer exist) with the largest sum of abs(change) over their
\* movements of the last days days, largest first, each with its sku, its
\* name and that sum, and no product without a movement in the window.
C9_TopMovers ==
    [][\A days \in DaysArgs, limit \in LimitArgs :
          (limit >= 0 /\ top_movers(1, days, limit))
          => IsTopMovers(resp'.body, now - days, limit)]_vars

\* C10: every movement row's product_id is the id of a product in the
\* products table.
C10_MovementsReferenceProducts ==
    \A i \in 1..Len(db.movements) : db.movements[i].product_id \in DOMAIN db.products

====
